---- MODULE Spec2Model ----
(***************************************************************************)
(* serve-index: the directory-listing middleware of src/index.js as a      *)
(* state machine.  One request is followed from the call of the handler    *)
(* through the asynchronous filesystem callbacks (fs.stat, fs.readdir, the *)
(* per-entry fs.stat fan-out run by Batch, the two fs.readFile calls) to   *)
(* its outcome: next(...), res.end(...) or an exception thrown out of the  *)
(* handler.                                                                *)
(*                                                                         *)
(* Strings are sequences of one-character strings; paths are POSIX paths   *)
(* (path.sep = "/").  The fixed characters "NUL" and "LF" stand for the    *)
(* characters \0 and \n.                                                   *)
(***************************************************************************)
EXTENDS Integers, Sequences, FiniteSets, TLC

\* ------------------------------------------------------------------ bounds

\* Tokens concatenated into a request pathname (PathSpec).
MaxTokens == 4
\* Entries of the listed directory (Spec, FairSpec).
MaxFiles == 2
\* Entries of the listed directory in the fan-out specification (BatchSpec).
MaxDir == 11

\* ----------------------------------------------------------------- strings

\* sep = path.sep on a POSIX platform.
sep == <<"/">>

\* The strings, and the lists of strings.
Str == Seq(STRING)
StrList == Seq(Str)

\* Array.prototype.join(d): the elements separated by d.
JoinWith[ss \in StrList, d \in Str] ==
  IF ss = <<>> THEN <<>>
  ELSE IF Len(ss) = 1 THEN ss[1]
  ELSE ss[1] \o d \o JoinWith[Tail(ss), d]

SplitAcc[s \in Str, c \in STRING, cur \in Str] ==
  IF s = <<>> THEN <<cur>>
  ELSE IF Head(s) = c THEN <<cur>> \o SplitAcc[Tail(s), c, <<>>]
  ELSE SplitAcc[Tail(s), c, Append(cur, Head(s))]

\* String.prototype.split(c) for a one-character separator.
Split(s, c) == SplitAcc[s, c, <<>>]

\* String.prototype.indexOf(c) !== -1.
Contains(s, c) == \E i \in 1..Len(s) : s[i] = c

\* String.prototype.substr(0, n).
Substr0(s, n) == SubSeq(s, 1, IF n < Len(s) THEN n ELSE Len(s))

\* UTF-16 code unit of the characters the model uses (the order of
\* Array.prototype.sort without a comparator).
CharCode(c) ==
  CASE c = "NUL" -> 0
    [] c = "LF" -> 10
    [] c = " " -> 32
    [] c = "\"" -> 34
    [] c = "%" -> 37
    [] c = "," -> 44
    [] c = "." -> 46
    [] c = "/" -> 47
    [] c = "0" -> 48
    [] c = "2" -> 50
    [] c = "B" -> 66
    [] c = "[" -> 91
    [] c = "\\" -> 92
    [] c = "]" -> 93
    [] c = "a" -> 97
    [] c = "b" -> 98
    [] c = "f" -> 102
    [] c = "r" -> 114
    [] OTHER -> 127

StrLessFrom[a \in Str, b \in Str] ==
  IF b = <<>> THEN FALSE
  ELSE IF a = <<>> THEN TRUE
  ELSE IF CharCode(Head(a)) # CharCode(Head(b))
       THEN CharCode(Head(a)) < CharCode(Head(b))
  ELSE StrLessFrom[Tail(a), Tail(b)]

\* a < b as JavaScript compares strings: by code unit, a proper prefix first.
StrLess(a, b) == StrLessFrom[a, b]

\* ------------------------------------------------------------- path module

\* normalizeString of Node's path module on the segments of a path: empty and
\* "." segments are dropped, ".." removes the segment before it; above the
\* start it is kept only when allowAboveRoot.
NormalizeSegs[segs \in StrList, acc \in StrList, allowAboveRoot \in BOOLEAN] ==
  IF segs = <<>> THEN acc
  ELSE LET s == Head(segs) IN
    IF s = <<>> \/ s = <<".">> THEN NormalizeSegs[Tail(segs), acc, allowAboveRoot]
    ELSE IF s = <<".", ".">> THEN
      IF acc # <<>> /\ acc[Len(acc)] # <<".", ".">>
      THEN NormalizeSegs[Tail(segs), SubSeq(acc, 1, Len(acc) - 1), allowAboveRoot]
      ELSE IF allowAboveRoot
      THEN NormalizeSegs[Tail(segs), Append(acc, s), allowAboveRoot]
      ELSE NormalizeSegs[Tail(segs), acc, allowAboveRoot]
    ELSE NormalizeSegs[Tail(segs), Append(acc, s), allowAboveRoot]

normalizeString(p, allowAboveRoot) ==
  JoinWith[NormalizeSegs[Split(p, "/"), <<>>, allowAboveRoot], sep]

isAbsolute(p) == p # <<>> /\ p[1] = "/"

\* path.normalize (posix).
normalize(p) ==
  IF p = <<>> THEN <<".">>
  ELSE LET abs == isAbsolute(p)
           trailing == p[Len(p)] = "/"
           n == normalizeString(p, ~abs)
       IN IF n = <<>>
          THEN (IF abs THEN sep ELSE IF trailing THEN <<".", "/">> ELSE <<".">>)
          ELSE (IF abs THEN sep ELSE <<>>) \o n \o (IF trailing THEN sep ELSE <<>>)

\* path.join (posix) of two arguments: the non-empty ones joined by "/".
join(a, b) ==
  IF a = <<>> /\ b = <<>> THEN <<".">>
  ELSE IF a = <<>> THEN normalize(b)
  ELSE IF b = <<>> THEN normalize(a)
  ELSE normalize(a \o sep \o b)

\* process.cwd(), which path.resolve prepends to a relative path.
cwd == <<"/", "w">>

\* path.resolve (posix) of one argument: absolute, normalized, no trailing
\* separator except for the root directory itself.
resolve(p) ==
  LET full == IF isAbsolute(p) THEN p ELSE cwd \o sep \o p
  IN sep \o normalizeString(full, FALSE)

\* ------------------------------------------------------ decodeURIComponent

HexDigits == {"0", "2", "f"}

HexVal(c) == CASE c = "0" -> 0 [] c = "2" -> 2 [] c = "f" -> 15 [] OTHER -> 0

\* The character of a one-byte (ASCII) escape.
ByteChar(b) ==
  CASE b = 0 -> "NUL"
    [] b = 32 -> " "
    [] b = 34 -> "\""
    [] b = 47 -> "/"
    [] OTHER -> "CTL"

URIError == [ok |-> FALSE, str |-> <<>>]

\* The scan of decodeURIComponent: s is still to decode, acc is decoded.
DecodeFrom[s \in Str, acc \in Str] ==
  IF s = <<>> THEN [ok |-> TRUE, str |-> acc]
  ELSE IF Head(s) # "%" THEN DecodeFrom[Tail(s), Append(acc, Head(s))]
  ELSE IF Len(s) < 3 \/ s[2] \notin HexDigits \/ s[3] \notin HexDigits THEN URIError
  ELSE IF 16 * HexVal(s[2]) + HexVal(s[3]) >= 128 THEN URIError
  ELSE DecodeFrom[SubSeq(s, 4, Len(s)), Append(acc, ByteChar(16 * HexVal(s[2]) + HexVal(s[3])))]

\* decodeURIComponent: every %XX escape is replaced by the character it
\* encodes; a "%" not followed by two hex digits, or an escape that is not
\* valid UTF-8, throws URIError.  The hex digits of the model are 0, 2 and f:
\* an escape of 0x80 or more would need continuation bytes 0x80..0xBF after
\* it, which these digits cannot write, so it is always malformed.
decodeURIComponent(s) == DecodeFrom[s, <<>>]

\* ------------------------------------------------------- sort, JSON, plain

\* files.sort(): ascending by code unit.  The names of a directory are
\* distinct, so the i-th is the one with i - 1 names below it.
SortNames(fs) ==
  [i \in 1..Len(fs) |->
     CHOOSE x \in {fs[k] : k \in 1..Len(fs)} :
       Cardinality({y \in {fs[k] : k \in 1..Len(fs)} : StrLess(y, x)}) = i - 1]

\* The characters of a JSON string literal for s: the quote and the backslash
\* are escaped with a backslash.
JsonEscape[s \in Str] ==
  IF s = <<>> THEN <<>>
  ELSE (IF Head(s) \in {"\"", "\\"} THEN <<"\\", Head(s)>> ELSE <<Head(s)>>)
       \o JsonEscape[Tail(s)]

JsonQuote(s) == <<"\"">> \o JsonEscape[s] \o <<"\"">>

\* JSON.stringify of an array of strings.
JsonStringify(names) ==
  <<"[">> \o JoinWith[[i \in 1..Len(names) |-> JsonQuote(names[i])], <<",">>] \o <<"]">>

\* JSON.parse restricted to arrays of strings, as a scanner: mode is the
\* position in the grammar, cur the string being read, acc the strings read.
JsonParseAcc[s \in Str, mode \in STRING, cur \in Str, acc \in StrList] ==
  IF s = <<>> THEN [ok |-> mode = "end", value |-> acc]
  ELSE LET c == Head(s)
           t == Tail(s)
       IN CASE mode = "start" ->
                 IF c = "[" THEN JsonParseAcc[t, "first", cur, acc]
                 ELSE [ok |-> FALSE, value |-> <<>>]
            [] mode = "first" ->
                 IF c = "]" THEN JsonParseAcc[t, "end", cur, acc]
                 ELSE IF c = "\"" THEN JsonParseAcc[t, "str", <<>>, acc]
                 ELSE [ok |-> FALSE, value |-> <<>>]
            [] mode = "elem" ->
                 IF c = "\"" THEN JsonParseAcc[t, "str", <<>>, acc]
                 ELSE [ok |-> FALSE, value |-> <<>>]
            [] mode = "str" ->
                 IF c = "\\" THEN JsonParseAcc[t, "esc", cur, acc]
                 ELSE IF c = "\"" THEN JsonParseAcc[t, "after", <<>>, Append(acc, cur)]
                 ELSE JsonParseAcc[t, "str", Append(cur, c), acc]
            [] mode = "esc" ->
                 IF c \in {"\"", "\\"} THEN JsonParseAcc[t, "str", Append(cur, c), acc]
                 ELSE [ok |-> FALSE, value |-> <<>>]
            [] mode = "after" ->
                 IF c = "," THEN JsonParseAcc[t, "elem", cur, acc]
                 ELSE IF c = "]" THEN JsonParseAcc[t, "end", cur, acc]
                 ELSE [ok |-> FALSE, value |-> <<>>]
            [] OTHER -> [ok |-> FALSE, value |-> <<>>]

JsonParse(s) == JsonParseAcc[s, "start", <<>>, <<>>]

\* files.join('\n') + '\n'
PlainBody(names) == JoinWith[names, <<"LF">>] \o <<"LF">>

\* ----------------------------------------------------- content negotiation

mediaTypes == << <<"text", "html">>, <<"text", "plain">>, <<"application", "json">> >>

mediaType(t) ==
  CASE t = <<"text", "html">> -> "html"
    [] t = <<"text", "plain">> -> "plain"
    [] t = <<"application", "json">> -> "json"

\* negotiator's specify: how the Accept entry spec (the o-th of the header)
\* matches the i-th offered type, or no match.
Specify(type, spec, o, i) ==
  IF (spec.type # type[1] /\ spec.type # "*") \/ (spec.subtype # type[2] /\ spec.subtype # "*")
  THEN [match |-> FALSE, i |-> i, o |-> o, q |-> 0, s |-> 0]
  ELSE [match |-> TRUE, i |-> i, o |-> o, q |-> spec.q,
        s |-> (IF spec.type = type[1] THEN 4 ELSE 0) + (IF spec.subtype = type[2] THEN 2 ELSE 0)]

RECURSIVE PriorityFrom(_, _, _, _, _)
\* negotiator's getMediaTypePriority: over the Accept entries in order, the
\* match that is more specific, then of higher q, then later, replaces the
\* priority held.
PriorityFrom(type, accepted, o, i, priority) ==
  IF o > Len(accepted) THEN priority
  ELSE LET spec == Specify(type, accepted[o], o, i)
           better == spec.match /\
                     (IF priority.s # spec.s THEN priority.s < spec.s
                      ELSE IF priority.q # spec.q THEN priority.q < spec.q
                      ELSE priority.o < spec.o)
       IN PriorityFrom(type, accepted, o + 1, i, IF better THEN spec ELSE priority)

MediaTypePriority(type, accepted, i) ==
  PriorityFrom(type, accepted, 1, i, [match |-> FALSE, i |-> i, o |-> 0, q |-> 0, s |-> 0])

\* negotiator's compareSpecs: a sorts before b.
SpecBefore(a, b) ==
  IF a.q # b.q THEN a.q > b.q
  ELSE IF a.s # b.s THEN a.s > b.s
  ELSE IF a.o # b.o THEN a.o < b.o
  ELSE a.i < b.i

\* accepts(req).type(mediaTypes): the offered type the Accept header prefers,
\* "none" when it accepts none of them; the first offered type without an
\* Accept header.  The header is held parsed: its entries in order, q in tenths.
AcceptType(accept) ==
  IF ~accept.present THEN mediaTypes[1]
  ELSE LET prios == {MediaTypePriority(mediaTypes[i], accept.specs, i) : i \in 1..Len(mediaTypes)}
           ok == {p \in prios : p.q > 0}
       IN IF ok = {} THEN "none"
          ELSE LET best == CHOOSE p \in ok : \A r \in ok \ {p} : SpecBefore(p, r)
               IN mediaTypes[best.i]

\* ------------------------------------------------------------------- state

VARIABLES
  method,       \* req.method
  url,          \* the pathname of req.url (and of req.originalUrl), undecoded
  root,         \* the root serveIndex was constructed with
  accept,       \* the request's Accept header, parsed
  dirEntries,   \* filesystem: the names in the requested directory, in the order readdir yields them
  vanish,       \* filesystem: how many entries may still vanish before their stat
  ioFaults,     \* filesystem: how many per-entry stats may still fail with an I/O error
  pc,           \* the asynchronous operation the request waits for
  thrown,       \* an exception left the handler
  nextCalls,    \* the arguments of the calls of next, in order
  res,          \* the response: status, headers, body, calls of res.end
  fsLog,        \* the filesystem calls started, by kind
  path,         \* the resolved directory path
  dir,          \* originalDir, the decoded pathname shown in the page
  showUp,       \* the ".." entry is shown
  statResult,   \* what fs.stat of the path delivered
  files,        \* the entry names handed to the renderer
  index,        \* Batch: functions started
  pending,      \* Batch: functions not yet completed successfully
  results,      \* Batch: the results array
  outstanding,  \* per-entry stats started and not yet called back
  done,         \* Batch: the callback was called with an error
  entryOutcome, \* what each per-entry fs.stat delivered
  fileList      \* locals.fileList

vars == <<method, url, root, accept, dirEntries, vanish, ioFaults, pc, thrown, nextCalls, res,
          fsLog, path, dir, showUp, statResult, files, index, pending, results,
          outstanding, done, entryOutcome, fileList>>

reqVars == <<method, url, root, accept, dirEntries>>
batchVars == <<files, index, pending, results, outstanding, done, entryOutcome>>

\* ------------------------------------------------------------------ values

\* The argument of next(): no argument, or an error with its status (0: none
\* set), its code, the operation it came from and the file it is about.
NoArg == [isErr |-> FALSE, status |-> 0, code |-> "", from |-> "", file |-> <<>>]
createError(status) == [isErr |-> TRUE, status |-> status, code |-> "", from |-> "handler", file |-> <<>>]
FsError(code, from, file) == [isErr |-> TRUE, status |-> 0, code |-> code, from |-> from, file |-> file]

\* A slot of the results array: a hole, null, or the fs.Stats of a file.
Unset == [kind |-> "unset", of |-> <<>>]
Null == [kind |-> "null", of |-> <<>>]
StatOf(file) == [kind |-> "stat", of |-> file]

NoResponse == [statusCode |-> 200, allow |-> FALSE, nosniff |-> FALSE, contentType |-> "",
               body |-> <<>>, ended |-> 0]

NoFs == [stat |-> 0, readdir |-> 0, entryStat |-> 0, readFile |-> 0]

\* batch.concurrency(10)
concurrency == 10

\* rootPath = normalize(resolve(root) + sep)
rootPath == normalize(resolve(root) \o sep)

\* ~path.indexOf('\0')
hasNullByte(p) == Contains(p, "NUL")

\* isMalicious with the separators left out of the comparison.
isMaliciousNoSep(p, rp) == Substr0(p, Len(rp) - 1) # SubSeq(rp, 1, Len(rp) - 1)

\* (path + sep).substr(0, rootPath.length) !== rootPath
isMalicious(p, rp) == Substr0(p \o sep, Len(rp)) # rp

\* normalize(resolve(path) + sep) !== rootPath
showUpOf(p, rp) == normalize(resolve(p) \o sep) # rp

\* send(res, type, body)
send(r, type, body) ==
  [r EXCEPT !.nosniff = TRUE, !.contentType = type, !.body = body, !.ended = r.ended + 1]

\* escapeHtml on the characters of a name: the quote becomes an entity.
escapeHtml(s) == [i \in 1..Len(s) |-> IF s[i] = "\"" THEN "&quot;" ELSE s[i]]

\* The file-list markup of createHtmlFileList, reduced to the entry names: one
\* list item per element of fileList, in order, the name escaped.
HtmlBody(list) ==
  <<"<ul>">>
  \o JoinWith[[i \in 1..Len(list) |-> <<"<li>">> \o escapeHtml(list[i].name) \o <<"</li>">>], <<"LF">>]
  \o <<"</ul>">>

\* htmlFiles with the ".." entry added whatever the flag.
htmlFilesAlwaysUp(fs, up) == << <<".", ".">> >> \o fs

\* files.unshift('..') when showUp
htmlFiles(fs, up) == IF up THEN << <<".", ".">> >> \o fs ELSE fs

Min(a, b) == IF a < b THEN a ELSE b

\* JavaScript's arr[i] = v on an array that may be shorter than i: the slots
\* between are holes.
storeAt(arr, i, v) ==
  IF i <= Len(arr) THEN [arr EXCEPT ![i] = v]
  ELSE arr \o [k \in 1..(i - Len(arr)) |-> IF k = i - Len(arr) THEN v ELSE Unset]

\* --------------------------------------------------------------- the handler

\* The handler's answer to a method other than GET and HEAD.
methodResponse ==
  [NoResponse EXCEPT !.statusCode = IF method = "OPTIONS" THEN 200 ELSE 405,
                     !.allow = TRUE, !.ended = 1]

\* The handler ends without a filesystem call: by a response, by an
\* exception, or by a call of next.
endHandler(response, threw, calls) ==
  /\ pc' = "end"
  /\ res' = response
  /\ thrown' = threw
  /\ nextCalls' = calls
  /\ UNCHANGED <<fsLog, path, dir, showUp>>

\* The synchronous part of the middleware function: the method check, the
\* decoding and resolution of the path, and the start of fs.stat.  Each local
\* variable of the code (dir, path, showUp) is bound once, as the code
\* computes it.
Handle ==
  /\ pc = "idle"
  /\ IF method # "GET" /\ method # "HEAD"
     THEN endHandler(methodResponse, FALSE, <<>>)
     ELSE \E d \in {decodeURIComponent(url)} :
       IF ~d.ok
       THEN endHandler(NoResponse, TRUE, <<>>)
       ELSE \E rp \in {rootPath} : \E joined \in {join(rp, d.str)} : \E p \in {normalize(joined)} :
         IF hasNullByte(p) THEN endHandler(NoResponse, FALSE, <<createError(400)>>)
         ELSE IF isMalicious(p, rp) THEN endHandler(NoResponse, FALSE, <<createError(403)>>)
         ELSE /\ pc' = "stat"
              /\ path' = p
              /\ dir' = d.str
              /\ showUp' = showUpOf(p, rp)
              /\ fsLog' = [fsLog EXCEPT !.stat = @ + 1]
              /\ UNCHANGED <<res, thrown, nextCalls>>
  /\ UNCHANGED <<reqVars, vanish, ioFaults, statResult, batchVars, fileList>>

StatOutcomes == {"ENOENT", "ENAMETOOLONG", "EIO", "file", "dir"}

\* statVerdict without the isDirectory test: whatever exists is read as a directory.
statVerdictNoDirTest(o) ==
  CASE o = "ENOENT" -> [readdir |-> FALSE, arg |-> NoArg]
    [] o \in {"file", "dir"} -> [readdir |-> TRUE, arg |-> NoArg]
    [] OTHER -> [readdir |-> FALSE,
                 arg |-> [FsError(o, "stat", path) EXCEPT
                            !.status = IF o = "ENAMETOOLONG" THEN 414 ELSE 500]]

\* The callback of fs.stat(path): what it does with each outcome.
statVerdict(o) ==
  CASE o = "ENOENT" -> [readdir |-> FALSE, arg |-> NoArg]
    [] o = "file" -> [readdir |-> FALSE, arg |-> NoArg]
    [] o = "dir" -> [readdir |-> TRUE, arg |-> NoArg]
    [] OTHER -> [readdir |-> FALSE,
                 arg |-> [FsError(o, "stat", path) EXCEPT
                            !.status = IF o = "ENAMETOOLONG" THEN 414 ELSE 500]]

StatCallback ==
  /\ pc = "stat"
  /\ \E o \in StatOutcomes :
       LET v == statVerdict(o)
       IN /\ statResult' = o
          /\ IF v.readdir
             THEN /\ pc' = "readdir"
                  /\ fsLog' = [fsLog EXCEPT !.readdir = @ + 1]
                  /\ UNCHANGED nextCalls
             ELSE /\ pc' = "end"
                  /\ nextCalls' = Append(nextCalls, v.arg)
                  /\ UNCHANGED fsLog
  /\ UNCHANGED <<reqVars, vanish, ioFaults, thrown, res, path, dir, showUp, batchVars, fileList>>

\* renderer with the plain and JSON renderers exchanged.
rendererSwapped(type) ==
  CASE mediaType(type) = "json" -> "plain"
    [] mediaType(type) = "plain" -> "json"
    [] OTHER -> mediaType(type)

\* The renderer called for a negotiated type: serveIndex[mediaType[type]].
renderer(type) == mediaType(type)

\* not acceptable: !type
notAcceptable(type) == type = "none"

\* batchStart without the concurrency limit: every function is started.
batchStartUnbounded(n) ==
  [pc |-> IF n = 0 THEN "defer" ELSE "batch", index |-> n, pending |-> n]

\* batch.end(cb) on n functions: the first min(n, concurrency) are started; an
\* empty batch defers its callback.
batchStart(n) ==
  [pc |-> IF n = 0 THEN "defer" ELSE "batch",
   index |-> Min(n, concurrency),
   pending |-> n]

\* The callback of fs.readdir(path): the sort, the negotiation and the
\* renderer called from it, up to its first asynchronous call.
ReaddirCallback ==
  /\ pc = "readdir"
  /\ \E o \in {"ok", "EACCES"} :
       IF o # "ok"
       THEN /\ pc' = "end"
            /\ nextCalls' = Append(nextCalls, FsError(o, "readdir", path))
            /\ UNCHANGED <<res, fsLog, batchVars>>
       ELSE \E sorted \in {SortNames(dirEntries)} : \E type \in {AcceptType(accept)} :
               IF notAcceptable(type)
               THEN /\ pc' = "end"
                    /\ nextCalls' = Append(nextCalls, createError(406))
                    /\ files' = sorted
                    /\ UNCHANGED <<res, fsLog, index, pending, results, outstanding, done, entryOutcome>>
               ELSE IF renderer(type) = "json"
               THEN /\ pc' = "end"
                    /\ res' = send(res, "application/json", JsonStringify(sorted))
                    /\ files' = sorted
                    /\ UNCHANGED <<nextCalls, fsLog, index, pending, results, outstanding, done, entryOutcome>>
               ELSE IF renderer(type) = "plain"
               THEN /\ pc' = "end"
                    /\ res' = send(res, "text/plain", PlainBody(sorted))
                    /\ files' = sorted
                    /\ UNCHANGED <<nextCalls, fsLog, index, pending, results, outstanding, done, entryOutcome>>
               ELSE \E fs \in {htmlFiles(sorted, showUp)} : \E b \in {batchStart(Len(fs))} :
                       /\ files' = fs
                       /\ pc' = b.pc
                       /\ index' = b.index
                       /\ pending' = b.pending
                       /\ outstanding' = 1..b.index
                       /\ results' = <<>>
                       /\ done' = FALSE
                       /\ entryOutcome' = [i \in 1..Len(fs) |-> "none"]
                       /\ fsLog' = [fsLog EXCEPT !.entryStat = @ + b.index]
                       /\ UNCHANGED <<nextCalls, res>>
  /\ UNCHANGED <<reqVars, vanish, ioFaults, thrown, path, dir, showUp, statResult, fileList>>

\* files.map(function (file, i) { return { name: file, stat: stats[i] } })
combine(fs, stats) ==
  [i \in 1..Len(fs) |-> [name |-> fs[i], stat |-> IF i <= Len(stats) THEN stats[i] ELSE Unset]]

\* The callback of an empty batch, run deferred: cb(null, []).
DeferCallback ==
  /\ pc = "defer"
  /\ fileList' = combine(files, results)
  /\ pc' = "stylesheet"
  /\ fsLog' = [fsLog EXCEPT !.readFile = @ + 1]
  /\ UNCHANGED <<reqVars, vanish, ioFaults, thrown, nextCalls, res, path, dir, showUp, statResult, batchVars>>

\* What the filesystem may deliver for a per-entry stat.
EntryOutcomes ==
  {"ok"} \cup (IF vanish > 0 THEN {"ENOENT"} ELSE {}) \cup (IF ioFaults > 0 THEN {"EIO"} ELSE {})

\* isHardError without the ENOENT exception.
isHardErrorAny(o) == o # "ok"

\* err && err.code !== 'ENOENT'
isHardError(o) == o # "ok" /\ o # "ENOENT"

\* alreadyDone without the done flag.
alreadyDoneNever(d) == FALSE

\* Batch: if (done) return
alreadyDone(d) == d

\* storeResult as results.push(res): in completion order.
storeResultPush(arr, i, v) == Append(arr, v)

\* Batch: results[i] = res
storeResult(arr, i, v) == storeAt(arr, i, v)

\* The callback of one per-entry fs.stat, with Batch's callback run from it:
\* the result is stored at the entry's index; the next function is started
\* or, after the last completion, the batch's callback builds the file list
\* and reads the stylesheet.
StatEntryCallback ==
  \E i \in outstanding : \E o \in EntryOutcomes :
    /\ outstanding' = (outstanding \ {i}) \cup
         (IF ~alreadyDone(done) /\ ~isHardError(o) /\ pending - 1 > 0 /\ index + 1 <= Len(files)
          THEN {index + 1} ELSE {})
    /\ entryOutcome' = [entryOutcome EXCEPT ![i] = o]
    /\ vanish' = IF o = "ENOENT" THEN vanish - 1 ELSE vanish
    /\ ioFaults' = IF o = "EIO" THEN ioFaults - 1 ELSE ioFaults
    /\ IF alreadyDone(done)
       THEN UNCHANGED <<pc, nextCalls, fsLog, index, pending, results, done, fileList>>
       ELSE IF isHardError(o)
       THEN /\ done' = TRUE
            /\ nextCalls' = Append(nextCalls, FsError(o, "entry", files[i]))
            /\ pc' = "end"
            /\ UNCHANGED <<fsLog, index, pending, results, fileList>>
       ELSE LET r == storeResult(results, i, IF o = "ok" THEN StatOf(join(path, files[i])) ELSE Null)
            IN /\ results' = r
               /\ pending' = pending - 1
               /\ UNCHANGED <<done, nextCalls>>
               /\ IF pending - 1 > 0
                  THEN /\ index' = index + 1
                       /\ fsLog' = [fsLog EXCEPT !.entryStat =
                                      IF index + 1 <= Len(files) THEN @ + 1 ELSE @]
                       /\ UNCHANGED <<pc, fileList>>
                  ELSE /\ fileList' = combine(files, r)
                       /\ pc' = "stylesheet"
                       /\ fsLog' = [fsLog EXCEPT !.readFile = @ + 1]
                       /\ UNCHANGED index
    /\ UNCHANGED <<reqVars, thrown, res, path, dir, showUp, statResult, files>>

\* The callback of fs.readFile(stylesheet): render(locals, ...) reads the template.
StylesheetCallback ==
  /\ pc = "stylesheet"
  /\ \E o \in {"ok", "ENOENT"} :
       IF o # "ok"
       THEN /\ pc' = "end"
            /\ nextCalls' = Append(nextCalls, FsError(o, "stylesheet", <<>>))
            /\ UNCHANGED fsLog
       ELSE /\ pc' = "template"
            /\ fsLog' = [fsLog EXCEPT !.readFile = @ + 1]
            /\ UNCHANGED nextCalls
  /\ UNCHANGED <<reqVars, vanish, ioFaults, thrown, res, path, dir, showUp, statResult, batchVars, fileList>>

\* The callback of fs.readFile(template) in createHtmlRender, with the
\* callback of render run from it: the page is sent.
TemplateCallback ==
  /\ pc = "template"
  /\ \E o \in {"ok", "ENOENT"} :
       IF o # "ok"
       THEN /\ nextCalls' = Append(nextCalls, FsError(o, "template", <<>>))
            /\ UNCHANGED res
       ELSE /\ res' = send(res, "text/html", HtmlBody(fileList))
            /\ UNCHANGED nextCalls
  /\ pc' = "end"
  /\ UNCHANGED <<reqVars, vanish, ioFaults, thrown, fsLog, path, dir, showUp, statResult, batchVars, fileList>>

\* ---------------------------------------------------------- specifications

\* The state when the handler is called, for a choice of request, root and
\* filesystem.
InitWith(methods, urls, roots, accepts, dirs, vanishSet, ioSet) ==
  /\ method \in methods
  /\ url \in urls
  /\ root \in roots
  /\ accept \in accepts
  /\ dirEntries \in dirs
  /\ vanish \in vanishSet
  /\ ioFaults \in ioSet
  /\ pc = "idle"
  /\ thrown = FALSE
  /\ nextCalls = <<>>
  /\ res = NoResponse
  /\ fsLog = NoFs
  /\ path = <<>>
  /\ dir = <<>>
  /\ showUp = FALSE
  /\ statResult = "none"
  /\ files = <<>>
  /\ index = 0
  /\ pending = 0
  /\ results = <<>>
  /\ outstanding = {}
  /\ done = FALSE
  /\ entryOutcome = <<>>
  /\ fileList = <<>>

Methods == {"GET", "HEAD", "OPTIONS", "POST"}

Range(t, s, q) == [type |-> t, subtype |-> s, q |-> q]
Header(specs) == [present |-> TRUE, specs |-> specs]
NoHeader == [present |-> FALSE, specs |-> <<>>]
AcceptJson == Header(<<Range("application", "json", 10)>>)
AcceptPlain == Header(<<Range("text", "plain", 10)>>)
AcceptXml == Header(<<Range("text", "xml", 10)>>)
AcceptAny == Header(<<Range("*", "*", 10)>>)
AcceptNoHtml == Header(<<Range("text", "html", 0), Range("*", "*", 10)>>)
AcceptJsonFirst == Header(<<Range("text", "*", 5), Range("application", "json", 10)>>)
AcceptNone == Header(<<Range("*", "*", 0)>>)

Accepts == {NoHeader, AcceptJson, AcceptPlain, AcceptXml, AcceptAny, AcceptNoHtml,
            AcceptJsonFirst, AcceptNone}

\* File names a directory may hold.
Names == { <<"b">>, <<"a", "b">>, <<"B">>, <<"a", "\"">> }

\* The directories of at most n entries, in every readdir order.
Dirs(n) ==
  {d \in UNION {[1..k -> Names] : k \in 0..n} : \A i, j \in 1..Len(d) : i # j => d[i] # d[j]}

Urls == { <<"/">>, <<"/", "r">>, <<"/", "r", "/">>, <<"/", ".", ".">>, <<"/", "%">> }

Init ==
  InitWith(Methods, Urls, { <<"/", "r">> }, Accepts, Dirs(MaxFiles), {MaxFiles + 1}, {MaxFiles + 1})

Next ==
  \/ Handle
  \/ StatCallback
  \/ ReaddirCallback
  \/ DeferCallback
  \/ StatEntryCallback
  \/ StylesheetCallback
  \/ TemplateCallback

Spec == Init /\ [][Next]_vars

Fairness ==
  /\ WF_vars(Handle)
  /\ WF_vars(StatCallback)
  /\ WF_vars(ReaddirCallback)
  /\ WF_vars(DeferCallback)
  /\ WF_vars(StatEntryCallback)
  /\ WF_vars(StylesheetCallback)
  /\ WF_vars(TemplateCallback)

\* Spec with every started callback eventually called.
FairSpec == Init /\ [][Next]_vars /\ Fairness

Concat[ss \in StrList] == IF ss = <<>> THEN <<>> ELSE Head(ss) \o Concat[Tail(ss)]

\* The pieces request pathnames are built from.
Tokens == { <<"/">>, <<".", ".">>, <<"r">>, <<"%", "0", "0">>, <<"%">>, <<"%", "2", "f">> }

\* The pathnames of at most n tokens after the leading "/".
TokenPaths(n) ==
  {<<"/">> \o Concat[t] : t \in UNION {[1..k -> Tokens] : k \in 0..n}}

PathRoots == { <<"/">>, <<"/", "r">> }

\* Requests over many pathnames, answered as JSON or not acceptable.
PathInit ==
  InitWith({"GET", "HEAD"}, TokenPaths(MaxTokens), PathRoots, {AcceptJson, AcceptXml},
           { << <<"b">> >> }, {0}, {0})

PathNext ==
  \/ Handle
  \/ StatCallback
  \/ ReaddirCallback

PathSpec == PathInit /\ [][PathNext]_vars

\* The name of k letters "a".
Rep(k) == [i \in 1..k |-> "a"]

\* The directories of n = 0..MaxDir entries, readdir yielding the longest name first.
BatchDirs == {[i \in 1..n |-> Rep(n + 1 - i)] : n \in 0..MaxDir}

\* HTML listings of large directories, in which at most one entry vanishes
\* before its stat and no stat fails otherwise.
BatchInit ==
  InitWith({"GET"}, { <<"/">> }, { <<"/", "r">> }, {NoHeader}, BatchDirs, {1}, {0})

BatchSpec == BatchInit /\ [][Next]_vars /\ Fairness

\* ------------------------------------------------------------------ claims

GetOrHead == method \in {"GET", "HEAD"}

\* The handler has run.
Handled == pc # "idle"

\* The percent-decoded request path.
Decoded == decodeURIComponent(url)

\* The decoded path joined onto the root and normalized.
Candidate == normalize(join(rootPath, Decoded.str))

IsPrefix(a, b) == Len(a) <= Len(b) /\ SubSeq(b, 1, Len(a)) = a

\* The candidate, a separator appended, is not prefixed by the root with its
\* trailing separator.
OutsideRoot == ~IsPrefix(rootPath, Candidate \o sep)

NoFsAccess == fsLog = NoFs

NothingWritten == res = NoResponse

\* C1, as stated: a GET or HEAD request whose decoded path, joined onto the
\* root and normalized, is not prefixed by the root is answered by next(403),
\* with no filesystem access and nothing written.
C1_OutsideIs403 ==
  (GetOrHead /\ Handled /\ Decoded.ok /\ OutsideRoot) =>
    (nextCalls = <<createError(403)>> /\ NoFsAccess /\ NothingWritten /\ ~thrown)

\* C1, amended: such a request is answered by next(403) when the normalized
\* candidate holds no NUL byte and by next(400) when it holds one; in both
\* cases with no filesystem access and nothing written.
C1_OutsideIsRejected ==
  (GetOrHead /\ Handled /\ Decoded.ok /\ OutsideRoot) =>
    /\ nextCalls = <<createError(IF Contains(Candidate, "NUL") THEN 400 ELSE 403)>>
    /\ NoFsAccess
    /\ NothingWritten
    /\ ~thrown
    /\ pc = "end"

\* C1's case: under the root /r the sibling directory /rr is refused.
C1_Witness ==
  /\ GetOrHead /\ Handled /\ Decoded.ok /\ OutsideRoot
  /\ root = <<"/", "r">>
  /\ Candidate = <<"/", "r", "r">>
  /\ nextCalls = <<createError(403)>>

\* C2: a GET or HEAD request whose decoded path holds a NUL byte anywhere is
\* answered by next(400) before any filesystem access, and nothing is written.
C2_NulIs400 ==
  (GetOrHead /\ Handled /\ Decoded.ok /\ Contains(Decoded.str, "NUL")) =>
    (nextCalls = <<createError(400)>> /\ NoFsAccess /\ NothingWritten)

\* C3: a GET or HEAD request whose path is not validly percent-encoded is
\* answered by next(400), with no filesystem access and nothing written.
C3_BadEncodingIs400 ==
  (GetOrHead /\ Handled /\ ~Decoded.ok) =>
    (nextCalls = <<createError(400)>> /\ NoFsAccess /\ NothingWritten)

\* C4: when fs.stat of the resolved path reports not-found, or a target that
\* is no directory, next is called once with no argument, no directory read
\* or other filesystem call is started and nothing is written.
C4_PassThrough ==
  (statResult \in {"ENOENT", "file"}) =>
    /\ nextCalls = <<NoArg>>
    /\ fsLog = [NoFs EXCEPT !.stat = 1]
    /\ NothingWritten
    /\ pc = "end"

\* C4's case: the target exists and is a file.
C4_Witness ==
  /\ GetOrHead /\ statResult = "file" /\ nextCalls = <<NoArg>> /\ ~OutsideRoot

\* The directory was read and the renderer chosen.
Dispatched ==
  /\ statResult = "dir"
  /\ pc # "readdir"
  /\ \A k \in 1..Len(nextCalls) : nextCalls[k].from # "readdir"

\* The representation each Accept header of the model asks for.
Wanted ==
  CASE accept \in {NoHeader, AcceptAny} -> "text/html"
    [] accept \in {AcceptPlain, AcceptNoHtml} -> "text/plain"
    [] accept \in {AcceptJson, AcceptJsonFirst} -> "application/json"
    [] OTHER -> "none"

\* C5: on an existing directory, the representation the Accept header
\* prefers among HTML, plain text and JSON is the one rendered: JSON is the
\* array of the sorted names, plain text the names each followed by a
\* newline, and a response is written by no other renderer; when none of the
\* three is acceptable, next(406) is called and nothing is written.
C5_Negotiation ==
  /\ (GetOrHead /\ res.ended > 0) =>
       /\ res.ended = 1
       /\ res.contentType = Wanted
       /\ nextCalls = <<>>
       /\ res.contentType = "application/json" =>
            JsonParse(res.body) = [ok |-> TRUE, value |-> SortNames(dirEntries)]
       /\ res.contentType = "text/plain" => res.body = PlainBody(SortNames(dirEntries))
       /\ res.contentType = "text/html" => res.body = HtmlBody(fileList)
  /\ (Dispatched /\ Wanted \in {"application/json", "text/plain"}) => res.ended = 1
  /\ (Dispatched /\ Wanted = "none") =>
       (nextCalls = <<createError(406)>> /\ NothingWritten /\ pc = "end")
  /\ (Dispatched /\ Wanted # "none") =>
       \A k \in 1..Len(nextCalls) : nextCalls[k].status # 406

\* C5's case: Accept: application/json on a directory of two entries.
C5_Witness ==
  /\ Dispatched /\ accept = AcceptJson /\ Len(dirEntries) = 2
  /\ res.ended = 1 /\ res.contentType = "application/json"

\* The names the HTML renderer builds its file list from, for this request.
HtmlNames == htmlFiles(SortNames(dirEntries), showUp)

JsonSent == GetOrHead /\ res.ended = 1 /\ res.contentType = "application/json"

\* C6, as stated: the names decoded from the JSON body are exactly the names
\* of the HTML file list of the same request, the ".." entry included.
C6_JsonEqualsHtml ==
  JsonSent => JsonParse(res.body) = [ok |-> TRUE, value |-> HtmlNames]

\* C6, amended: the names decoded from the JSON body are the names of the
\* HTML file list of the same request without the synthetic ".." entry: the
\* two lists are equal when the show-parent flag is not set, and the HTML
\* list is ".." followed by the JSON list when it is set.
C6_JsonIsHtmlWithoutParent ==
  /\ JsonSent =>
       /\ JsonParse(res.body).ok
       /\ HtmlNames = (IF showUp THEN << <<".", ".">> >> ELSE <<>>) \o JsonParse(res.body).value
  /\ (fsLog.readFile > 0) => [i \in 1..Len(fileList) |-> fileList[i].name] = HtmlNames

\* C6's case: a JSON listing below the root, of a name that needs escaping.
C6_Witness ==
  /\ JsonSent /\ showUp
  /\ Len(dirEntries) = 2
  /\ \E i \in 1..2 : dirEntries[i] = <<"a", "\"">>

\* The per-entry stats were started.
FanOut == Len(entryOutcome) > 0

\* C7: a per-entry stat that fails with not-found gives that entry null
\* metadata and never fails the request, which goes on to its listing; a
\* per-entry stat that fails otherwise fails the request: next is called once,
\* with the first such error, and no listing is written.
C7_EntryErrors ==
  /\ (\E i \in 1..Len(entryOutcome) : entryOutcome[i] = "EIO") =>
       /\ res.ended = 0
       /\ fsLog.readFile = 0
       /\ Len(nextCalls) = 1
       /\ nextCalls[1].from = "entry" /\ nextCalls[1].code = "EIO"
       /\ \E i \in 1..Len(files) : files[i] = nextCalls[1].file /\ entryOutcome[i] = "EIO"
  /\ \A k \in 1..Len(nextCalls) : nextCalls[k].from = "entry" => nextCalls[k].code = "EIO"
  /\ (FanOut /\ \A i \in 1..Len(entryOutcome) : entryOutcome[i] \in {"ok", "ENOENT"}) =>
       /\ fsLog.readFile > 0
       /\ Len(fileList) = Len(files)
       /\ \A i \in 1..Len(files) : entryOutcome[i] = "ENOENT" <=> fileList[i].stat = Null
  /\ (res.ended > 0 /\ res.contentType = "text/html") =>
       \A i \in 1..Len(entryOutcome) : entryOutcome[i] \in {"ok", "ENOENT"}

\* C7's case: an entry vanished before its stat and the page was sent.
C7_Witness ==
  /\ res.ended = 1 /\ res.contentType = "text/html"
  /\ \E i \in 1..Len(entryOutcome) : entryOutcome[i] = "ENOENT" /\ fileList[i].stat = Null
  /\ \E i \in 1..Len(entryOutcome) : entryOutcome[i] = "ok"

\* C8: the array the batch delivers has the length of the name list, and its
\* element i is the result of the stat of name i: null when the entry was not
\* found, the Stats of that entry's path otherwise.
C8_Positional ==
  (fsLog.readFile > 0) =>
    /\ Len(results) = Len(files)
    /\ Len(fileList) = Len(files)
    /\ \A i \in 1..Len(files) :
         /\ fileList[i].name = files[i]
         /\ fileList[i].stat = results[i]
         /\ results[i] = IF entryOutcome[i] = "ENOENT" THEN Null
                         ELSE StatOf(join(path, files[i]))

\* C8's case: three entries, the second of them vanished.
C8_Witness ==
  /\ fsLog.readFile > 0 /\ Len(files) = 3
  /\ entryOutcome = <<"ok", "ENOENT", "ok">>
  /\ fileList[2].stat = Null /\ fileList[3].stat = StatOf(join(path, files[3]))

AllStatted == \A i \in 1..Len(entryOutcome) : entryOutcome[i] # "none"

\* C9: at most 10 per-entry stats are started and not completed; after the
\* first ones, a stat is started only in the step that completes another, one
\* at a time; the batch delivers only when every entry was statted, and, no
\* stat failing hard, every entry is eventually statted.
C9_Bounded ==
  /\ [](Cardinality(outstanding) <= 10)
  /\ [](fsLog.entryStat <= Len(files) /\ fsLog.entryStat = Cardinality(outstanding) +
          Cardinality({i \in 1..Len(entryOutcome) : entryOutcome[i] # "none"}))
  /\ [][(fsLog'.entryStat > fsLog.entryStat /\ pc # "readdir") =>
          /\ fsLog'.entryStat = fsLog.entryStat + 1
          /\ Cardinality(outstanding') = Cardinality(outstanding)
          /\ \E i \in outstanding : i \notin outstanding']_vars
  /\ [](fsLog.readFile > 0 => (fsLog.entryStat = Len(files) /\ AllStatted))
  /\ (pc = "batch") ~> (AllStatted /\ fsLog.entryStat = Len(files))

\* C9's case: a directory of more than 10 entries, one stat has completed and
\* the entry that waited was started in its place, 10 being outstanding again.
C9_Witness ==
  /\ pc = "batch" /\ Len(files) > 10
  /\ Cardinality(outstanding) = 10
  /\ fsLog.entryStat > 10
  /\ \E i \in 1..Len(entryOutcome) : entryOutcome[i] # "none"

\* The terminal outcomes produced: calls of next and calls of res.end.
Outcomes == Len(nextCalls) + res.ended

\* C10: for a GET or HEAD request with a validly encoded path, every callback
\* being called once, next is called or the response ended at most once in
\* all, and exactly one of them eventually happens.
C10_OneOutcome ==
  /\ [](GetOrHead => Outcomes <= 1)
  /\ [](GetOrHead => (Outcomes = 1 => pc = "end"))
  /\ (GetOrHead /\ Decoded.ok) => <>(Outcomes = 1)

\* C10's case: two per-entry stats failed hard and next was called once.
C10_Witness ==
  /\ Cardinality({i \in 1..Len(entryOutcome) : entryOutcome[i] = "EIO"}) >= 2
  /\ Len(nextCalls) = 1 /\ res.ended = 0

====
